---- MODULE Spec2Model ----
(***************************************************************************)
(* Model of pRT_make_spec.py: the command-line driver that builds an       *)
(* isothermal atmosphere profile, invokes the petitRADTRANS engine once    *)
(* per spectral order and pickles one template file per order.             *)
(*                                                                         *)
(* Real numbers are modelled as exact rationals Q(n, d) in lowest terms    *)
(* (floating-point rounding is not modelled).  An absent optional value    *)
(* (Python None) is the empty tuple, a present one is a 1-tuple.           *)
(* A numpy array is [kind |-> "array", v |-> <<...>>], a Python scalar is  *)
(* [kind |-> "scalar", v |-> x].                                           *)
(***************************************************************************)
EXTENDS Integers, Sequences, FiniteSets, TLC

VARIABLES
    args,            \* argparse namespace (line 98)
    wlensData,       \* object stored in the --wlens-file pickle (line 175)
    pc,              \* position of the script
    err,             \* uncaught exception that ended the run, or None
    dirs,            \* directories that exist on disk
    made,            \* directories created by this run (os.makedirs)
    save_dir,
    profile,         \* Rp, Rs, gravity, P0, Teq, mmw, wfactor, pressures, temperature, MMW
    LS,
    abundances,
    orders,          \* order_by_order, ndet, W_min, W_max, det
    idet,
    calls,           \* engine invocations started so far, in order
    inProgress,      \* number of engine invocations that have not returned
    result,          \* (Rtransit, wlens) of the last returned invocation
    files,           \* path -> pickled content, for the files written by this run
    writes           \* paths passed to pickle.dump, in order

vars == <<args, wlensData, pc, err, dirs, made, save_dir, profile, LS, abundances,
          orders, idet, calls, inProgress, result, files, writes>>

----------------------------------------------------------------------------
(* Bounds of the model *)

MaxOrders == 2       \* most entries in the wavelength file
MaxSpecies == 2      \* most names given to --species

----------------------------------------------------------------------------
(* Values *)

None == <<>>
Some(x) == <<x>>
IsNone(o) == o = <<>>
Get(o) == o[1]

Abs(n) == IF n < 0 THEN -n ELSE n

Gcd[a \in Nat, b \in Nat] == IF b = 0 THEN a ELSE Gcd[b, a % b]

\* n/d in lowest terms with a positive denominator
Lowest[n \in Int, d \in Int] ==
    LET g == Gcd[Abs(n), Abs(d)]
        s == IF d < 0 THEN -1 ELSE 1
    IN  [num |-> (s * n) \div g, den |-> (s * d) \div g]

\* the rational n/d
Q(n, d) == Lowest[n, d]

QMul(a, b) == Q(a.num * b.num, a.den * b.den)
QAdd(a, b) == Q(a.num * b.den + b.num * a.den, a.den * b.den)
QSub(a, b) == Q(a.num * b.den - b.num * a.den, a.den * b.den)
QDiv(a, b) == Q(a.num * b.den, a.den * b.num)
QInt(n) == Q(n, 1)

Scalar(x) == [kind |-> "scalar", v |-> x]
Array(s) == [kind |-> "array", v |-> s]

\* numpy's a * b over scalars and arrays, broadcasting the scalar
Times(a, b) ==
    IF a.kind = "scalar" /\ b.kind = "scalar" THEN Scalar(QMul(a.v, b.v))
    ELSE IF a.kind = "scalar" THEN Array([i \in DOMAIN b.v |-> QMul(a.v, b.v[i])])
    ELSE IF b.kind = "scalar" THEN Array([i \in DOMAIN a.v |-> QMul(a.v[i], b.v)])
    ELSE Array([i \in DOMAIN a.v |-> QMul(a.v[i], b.v[i])])

\* Python's ^ on non-negative ints
RECURSIVE Xor(_, _)
Xor(a, b) ==
    IF a = 0 THEN b
    ELSE IF b = 0 THEN a
    ELSE ((a + b) % 2) + 2 * Xor(a \div 2, b \div 2)

----------------------------------------------------------------------------
(* Command-line inputs and the state of the disk before the run *)

\* names given to --species in the runs explored: two whose line list has an entry
\* in the abundance dictionary under the same name, NH3, and the default H2
SpeciesNames == {"CO", "H2O", "NH3", "H2"}

NoRepeat(s) == \A i, j \in DOMAIN s : i # j => s[i] # s[j]

SeqsUpTo(S, n) == UNION {[1..k -> S] : k \in 0..n}

\* values of --species: one to MaxSpecies names (nargs='+'), the default ['H2'] included
SpeciesLists == {s \in SeqsUpTo(SpeciesNames, MaxSpecies) : Len(s) >= 1 /\ NoRepeat(s)}

\* per-order wavelength arrays of the pickle file, in nm
WlensEntries == {<<QInt(1100), QInt(1150), QInt(1200)>>, <<QInt(1300), QInt(1400)>>}

WlensFiles == SeqsUpTo(WlensEntries, MaxOrders)

DefaultWmin == Q(12, 10)
DefaultWmax == Q(25, 10)

\* (--wmin, --wmax, --wlens-file, content of the file)
WaveArgs ==
    {<<DefaultWmin, DefaultWmax, None, <<>>>>, <<Q(2, 1), Q(23, 10), None, <<>>>>}
    \cup {<<DefaultWmin, DefaultWmax, Some("wlens.pic"), A>> : A \in WlensFiles}

\* (--Teq, --Teff, --Tint)
TempArgs ==
    {<<1000, None, None>>, <<1000, Some(5000), None>>, <<1000, Some(5000), Some(200)>>}

Planets == {"WASP-76b"}

ArgSets ==
    {[planet |-> p, Rp |-> Q(183, 100), Rs |-> Q(1756, 1000), grav |-> QInt(640),
      Teq |-> t[1], Teff |-> t[2], Tint |-> t[3], mmw |-> Q(233, 100),
      wmin |-> w[1], wmax |-> w[2], wlens_file |-> w[3], species |-> sp] :
        p \in Planets, t \in TempArgs, w \in WaveArgs, sp \in SpeciesLists}

TopDir == "pRT_models/"

Init ==
    /\ \E w \in WaveArgs :
          /\ args \in {a \in ArgSets : a.wmin = w[1] /\ a.wmax = w[2] /\ a.wlens_file = w[3]}
          /\ wlensData = w[4]
    /\ pc = "makedirs_top"
    /\ err = None
    /\ dirs \in {{}, {TopDir}}
    /\ made = {}
    /\ save_dir = None
    /\ profile = None
    /\ LS = None
    /\ abundances = None
    /\ orders = None
    /\ idet = None
    /\ calls = <<>>
    /\ inProgress = 0
    /\ result = None
    /\ files = <<>>
    /\ writes = <<>>

----------------------------------------------------------------------------
(* Program constants *)

NPress == 100          \* np.logspace(-10, 2, 100)
LogPStart == -10
LogPStop == 2
wfactor == Q(1, 100)
P0 == Q(1, 100)
solar == "1x"

----------------------------------------------------------------------------
(* Directory creation and the atmosphere profile, lines 102-126 *)

\* if not os.path.exists(d): os.makedirs(d); makedirs also creates the missing
\* ancestors of d
EnsureDir(d, ancestors) ==
    /\ dirs' = IF d \in dirs THEN dirs ELSE dirs \cup ancestors \cup {d}
    /\ made' = IF d \in dirs THEN made ELSE made \cup ((ancestors \cup {d}) \ dirs)

\* save_dir = 'pRT_models/'; create it when missing
MakeTopDir ==
    /\ pc = "makedirs_top"
    /\ save_dir' = TopDir
    /\ EnsureDir(TopDir, {})
    /\ pc' = "profile"
    /\ UNCHANGED <<args, wlensData, err, profile, LS, abundances, orders, idet, calls,
                   inProgress, result, files, writes>>

\* np.logspace(start, stop, num): num values 10^e, e evenly spaced from start to stop
logspace(start, stop, num) ==
    Array([i \in 1..num |->
        [base |-> 10, exp |-> QAdd(QInt(start), Q((i - 1) * (stop - start), num - 1))]])

\* variant: a ramp 1, 2, ... in place of the ones
ramp_like(a) == Array([i \in DOMAIN a.v |-> QInt(i)])

ones_like(a) == Array([i \in DOMAIN a.v |-> QInt(1)])

\* pressures = np.logspace(-10, 2, 100), line 121
PressureGrid == logspace(LogPStart, LogPStop, NPress)

\* a temperature coef * rad^(1/4), times a rational
TScale(t, q) == [coef |-> QMul(t.coef, q), rad |-> t.rad]

\* Tint^4+Teq^4 parses as (Tint ^ (4+Teq)) ^ 4, ^ being bitwise xor
XorTerm(Tint, Teq) == Xor(Xor(Tint, 4 + Teq), 4)

\* the scalar that multiplies np.ones_like(pressures), lines 122-125
TempScalar(Teff, Tint, Teq) ==
    IF ~IsNone(Teff)
    THEN [coef |-> QInt(Get(Teff)), rad |-> XorTerm(Get(Tint), Teq)]
    ELSE [coef |-> QInt(Teq), rad |-> 1]

\* the temperature array
TemperatureOf(Teff, Tint, Teq, pressures) ==
    Array([i \in DOMAIN pressures.v |->
        TScale(TempScalar(Teff, Tint, Teq), ones_like(pressures).v[i])])

\* the mean-molecular-weight array, line 126
MMWOf(mmw, temperature) == Times(Scalar(mmw), ones_like(temperature))

\* line 123 raises TypeError: None ^ int
Raises(Teff, Tint) == ~IsNone(Teff) /\ IsNone(Tint)

ProfileRaises == Raises(args.Teff, args.Tint)

\* the arrays of lines 122-126 for every input explored, computed once
TemperatureTable ==
    [t \in {x \in TempArgs : ~Raises(x[2], x[3])} |->
        TemperatureOf(t[2], t[3], t[1], PressureGrid)]

MMWTable ==
    [k \in {<<a.Teq, a.Teff, a.Tint, a.mmw>> : a \in {x \in ArgSets : ~Raises(x.Teff, x.Tint)}} |->
        MMWOf(k[4], TemperatureTable[<<k[1], k[2], k[3]>>])]

BuildProfile ==
    /\ pc = "profile"
    /\ ~ProfileRaises
    /\ profile' = [Rp |-> [val |-> args.Rp, unit |-> "r_jup_mean"],
                   Rs |-> [val |-> args.Rs, unit |-> "r_sun"],
                   gravity |-> args.grav,
                   P0 |-> P0,
                   Teq |-> args.Teq,
                   mmw |-> args.mmw,
                   wfactor |-> wfactor,
                   pressures |-> PressureGrid,
                   temperature |-> TemperatureTable[<<args.Teq, args.Teff, args.Tint>>],
                   MMW |-> MMWTable[<<args.Teq, args.Teff, args.Tint, args.mmw>>]]
    /\ pc' = "species"
    /\ UNCHANGED <<args, wlensData, err, dirs, made, save_dir, LS, abundances, orders,
                   idet, calls, inProgress, result, files, writes>>

\* variant: the TypeError is swallowed and the profile falls back to Teq
ProfileFallsBack ==
    /\ pc = "profile"
    /\ ProfileRaises
    /\ profile' = [Rp |-> [val |-> args.Rp, unit |-> "r_jup_mean"],
                   Rs |-> [val |-> args.Rs, unit |-> "r_sun"],
                   gravity |-> args.grav,
                   P0 |-> P0,
                   Teq |-> args.Teq,
                   mmw |-> args.mmw,
                   wfactor |-> wfactor,
                   pressures |-> PressureGrid,
                   temperature |-> TemperatureOf(None, None, args.Teq, PressureGrid),
                   MMW |-> MMWOf(args.mmw, PressureGrid)]
    /\ pc' = "species"
    /\ UNCHANGED <<args, wlensData, err, dirs, made, save_dir, LS, abundances, orders,
                   idet, calls, inProgress, result, files, writes>>

ProfileTypeError ==
    /\ pc = "profile"
    /\ ProfileRaises
    /\ pc' = "crashed"
    /\ err' = Some("TypeError")
    /\ UNCHANGED <<args, wlensData, dirs, made, save_dir, profile, LS, abundances, orders,
                   idet, calls, inProgress, result, files, writes>>

----------------------------------------------------------------------------
(* Line species and abundances, lines 130-154 *)

Contains(s, x) == \E i \in DOMAIN s : s[i] = x

AppendIf(c, s, x) == IF c THEN Append(s, x) ELSE s

\* the line-by-line opacity names, appended in the fixed order of lines 132-138
LineSpecies(species) ==
    LET l1 == AppendIf(Contains(species, "CO"), <<>>, "CO_all_iso")
        l2 == AppendIf(Contains(species, "H2O"), l1, "H2O_main_iso")
        l3 == AppendIf(Contains(species, "CO2"), l2, "CO2_main_iso")
        l4 == AppendIf(Contains(species, "CH4"), l3, "CH4_main_iso")
        l5 == AppendIf(Contains(species, "HCN"), l4, "HCN_main_iso")
        l6 == AppendIf(Contains(species, "NH3"), l5, "NH3_main_iso")
        l7 == AppendIf(Contains(species, "H2"), l6, "H2_main_iso")
    IN  l7

BuildLS ==
    /\ pc = "species"
    /\ LS' = LineSpecies(args.species)
    /\ pc' = "abundances"
    /\ UNCHANGED <<args, wlensData, err, dirs, made, save_dir, profile, abundances, orders,
                   idet, calls, inProgress, result, files, writes>>

\* mass fraction times np.ones_like(pressures)
Uniform(q, pressures) == Times(Scalar(q), ones_like(pressures))

\* the abundance dictionary, lines 146-154
AbundancesOf(pressures) ==
    [k \in {"H2", "He", "H2O_main_iso", "CO_all_iso", "NH3", "CO2_main_iso",
            "CH4_main_iso", "HCN_main_iso"} |->
        Uniform(CASE k = "H2" -> Q(71, 100)
                  [] k = "He" -> Q(27, 100)
                  [] k = "H2O_main_iso" -> Q(1, 1000)
                  [] k = "CO_all_iso" -> Q(1, 1000)
                  [] k = "NH3" -> Q(22, 1000000)
                  [] k = "CO2_main_iso" -> Q(1, 10000)
                  [] k = "CH4_main_iso" -> Q(1, 1000)
                  [] k = "HCN_main_iso" -> Q(11, 100000),
                pressures)]

\* the dictionary over the pressure grid of line 121, computed once
SolarAbundances == AbundancesOf(PressureGrid)

SetAbundances ==
    /\ pc = "abundances"
    /\ abundances' = SolarAbundances
    /\ pc' = "wavelengths"
    /\ UNCHANGED <<args, wlensData, err, dirs, made, save_dir, profile, LS, orders,
                   idet, calls, inProgress, result, files, writes>>

----------------------------------------------------------------------------
(* Order enumeration, lines 166-195 *)

\* W_min / W_max of lines 177-185: first / last value of every entry, in microns
FirstsOf(A) == Array([i \in DOMAIN A |-> QDiv(A[i][1], QInt(1000))])
LastsOf(A) == Array([i \in DOMAIN A |-> QDiv(A[i][Len(A[i])], QInt(1000))])

\* np.arange(n): 0 .. n-1
arange(n) == [i \in 1..n |-> i - 1]

\* the wavelength-file branch, lines 167-187
OrdersFromFile(A) ==
    [order_by_order |-> TRUE,
     ndet |-> Len(A),
     W_min |-> FirstsOf(A),
     W_max |-> LastsOf(A),
     det |-> arange(Len(A))]

\* variant: the single order is labelled 0, as np.arange(1) would
SingleOrderFromZero(wmin, wmax) ==
    [order_by_order |-> FALSE,
     ndet |-> 1,
     W_min |-> Scalar(wmin),
     W_max |-> Scalar(wmax),
     det |-> <<0>>]

\* the single-model branch, lines 190-195
SingleOrder(wmin, wmax) ==
    [order_by_order |-> FALSE,
     ndet |-> 1,
     W_min |-> Scalar(wmin),
     W_max |-> Scalar(wmax),
     det |-> <<1>>]

LoadWlens ==
    /\ pc = "wavelengths"
    /\ ~IsNone(args.wlens_file)
    /\ orders' = OrdersFromFile(wlensData)
    /\ pc' = "save_dir"
    /\ UNCHANGED <<args, wlensData, err, dirs, made, save_dir, profile, LS, abundances,
                   idet, calls, inProgress, result, files, writes>>

UseMinMax ==
    /\ pc = "wavelengths"
    /\ IsNone(args.wlens_file)
    /\ orders' = SingleOrder(args.wmin, args.wmax)
    /\ pc' = "save_dir"
    /\ UNCHANGED <<args, wlensData, err, dirs, made, save_dir, profile, LS, abundances,
                   idet, calls, inProgress, result, files, writes>>

----------------------------------------------------------------------------
(* Output directory, lines 199-204 *)

\* sep.join(s)
RECURSIVE join(_, _)
join(sep, s) ==
    IF Len(s) = 0 THEN ""
    ELSE IF Len(s) = 1 THEN s[1]
    ELSE s[1] \o sep \o join(sep, Tail(s))

\* variant: no sub-directory for the per-order runs
ModelDirFlat(top, planet, species, order_by_order) ==
    top \o planet \o "_" \o solar \o "Solar_" \o join("_", species) \o "_R1M/"

\* save_dir after lines 200-203
ModelDir(top, planet, species, order_by_order) ==
    LET sp == join("_", species)
        d == top \o planet \o "_" \o solar \o "Solar_" \o sp \o "_R1M/"
    IN  IF order_by_order THEN d \o "order_by_order/" ELSE d

MakeSaveDir ==
    /\ pc = "save_dir"
    /\ save_dir' = ModelDir(save_dir, args.planet, args.species, orders.order_by_order)
    /\ EnsureDir(save_dir', {ModelDir(save_dir, args.planet, args.species, FALSE)})
    /\ idet' = 0
    /\ pc' = "loop"
    /\ UNCHANGED <<args, wlensData, err, profile, LS, abundances, orders,
                   calls, inProgress, result, files, writes>>

----------------------------------------------------------------------------
(* Main loop, lines 208-241, and compute_model, lines 55-76 *)

QOne == QInt(1)

\* lamb_inf, lamb_sup = (1-wfactor)*wmin, wmax*(1+wfactor)
PadWindow(wmin, wmax, wf) ==
    <<Times(Scalar(QSub(QOne, wf)), wmin),
      Times(wmax, Scalar(QAdd(QOne, wf)))>>

\* variant: the reference pressure grows with every invocation
EngineCallRescaled(wmin, wmax, wf) ==
    [line_species |-> LS,
     rayleigh_species |-> <<"H2", "He">>,
     continuum_opacities |-> <<"H2-H2", "H2-He">>,
     wlen_bords_micron |-> PadWindow(wmin, wmax, wf),
     mode |-> "lbl",
     lbl_opacity_sampling |-> 10,
     pressures |-> profile.pressures,
     temperature |-> profile.temperature,
     abundances |-> abundances,
     gravity |-> profile.gravity,
     MMW |-> profile.MMW,
     R_pl |-> profile.Rp,
     P0_bar |-> QMul(profile.P0, QInt(Len(calls) + 1))]

\* what compute_model hands to Radtrans, setup_opa_structure and calc_transm
EngineCall(wmin, wmax, wf) ==
    [line_species |-> LS,
     rayleigh_species |-> <<"H2", "He">>,
     continuum_opacities |-> <<"H2-H2", "H2-He">>,
     wlen_bords_micron |-> PadWindow(wmin, wmax, wf),
     mode |-> "lbl",
     lbl_opacity_sampling |-> 10,
     pressures |-> profile.pressures,
     temperature |-> profile.temperature,
     abundances |-> abundances,
     gravity |-> profile.gravity,
     MMW |-> profile.MMW,
     R_pl |-> profile.Rp,
     P0_bar |-> profile.P0]

\* line 211: the arguments of compute_model in iteration i (0-based)
ModelArgs(i) == <<orders.W_min, orders.W_max, profile.wfactor>>

\* iteration idet enters compute_model and starts the engine
CallEngine ==
    /\ pc = "loop"
    /\ idet < orders.ndet
    /\ LET a == ModelArgs(idet)
       IN  calls' = Append(calls, EngineCall(a[1], a[2], a[3]))
    /\ inProgress' = inProgress + 1
    /\ pc' = "engine"
    /\ UNCHANGED <<args, wlensData, err, dirs, made, save_dir, profile, LS, abundances,
                   orders, idet, result, files, writes>>

\* variant: pickle.dump is outside the loop body, the loop goes straight on
EngineReturnsNoDump ==
    /\ pc = "engine"
    /\ inProgress' = inProgress - 1
    /\ result' = [Rtransit |-> <<"transm_rad", Len(calls)>>, wlens |-> <<"wlens", Len(calls)>>]
    /\ idet' = idet + 1
    /\ pc' = "loop"
    /\ UNCHANGED <<args, wlensData, err, dirs, made, save_dir, profile, LS, abundances,
                   orders, calls, files, writes>>

\* the engine returns transm_rad and freq; compute_model returns (Rtransit, wlens)
EngineReturns ==
    /\ pc = "engine"
    /\ inProgress' = inProgress - 1
    /\ result' = [Rtransit |-> <<"transm_rad", Len(calls)>>, wlens |-> <<"wlens", Len(calls)>>]
    /\ pc' = "dump"
    /\ UNCHANGED <<args, wlensData, err, dirs, made, save_dir, profile, LS, abundances,
                   orders, idet, calls, files, writes>>

\* variant: the exception is caught and the loop goes on with the next order
EngineRaisesSwallowed ==
    /\ pc = "engine"
    /\ inProgress' = inProgress - 1
    /\ err' = Some("EngineError")
    /\ idet' = idet + 1
    /\ pc' = "loop"
    /\ UNCHANGED <<args, wlensData, dirs, made, save_dir, profile, LS, abundances,
                   orders, calls, result, files, writes>>

\* the engine raises; nothing catches the exception
EngineRaises ==
    /\ pc = "engine"
    /\ inProgress' = inProgress - 1
    /\ err' = Some("EngineError")
    /\ pc' = "crashed"
    /\ UNCHANGED <<args, wlensData, dirs, made, save_dir, profile, LS, abundances,
                   orders, idet, calls, result, files, writes>>

\* variant: the file name carries the number of orders, not the order's label
TemplatePathByCount(dir, k) == dir \o "template_det" \o ToString(orders.ndet) \o ".pic"

\* rep_fin of line 216 for the order label k
TemplatePath(dir, k) == dir \o "template_det" \o ToString(k) \o ".pic"

\* open(path, 'wb') and pickle.dump: the file is created or replaced
WriteFile(fs, path, content) ==
    [p \in DOMAIN fs \cup {path} |-> IF p = path THEN content ELSE fs[p]]

\* lines 213-235: DF, rep_fin, pickle.dump; then the next iteration
Dump ==
    /\ pc = "dump"
    /\ LET DF == [minus_sq_ratio |-> <<result.Rtransit, profile.Rs>>]
           rep_fin == TemplatePath(save_dir, orders.det[idet + 1])
       IN  /\ files' = WriteFile(files, rep_fin, <<result.wlens, DF>>)
           /\ writes' = Append(writes, rep_fin)
    /\ idet' = idet + 1
    /\ pc' = "loop"
    /\ UNCHANGED <<args, wlensData, err, dirs, made, save_dir, profile, LS, abundances,
                   orders, calls, inProgress, result>>

\* the loop is exhausted: print "DONE"
Finish ==
    /\ pc = "loop"
    /\ idet >= orders.ndet
    /\ pc' = "done"
    /\ UNCHANGED <<args, wlensData, err, dirs, made, save_dir, profile, LS, abundances,
                   orders, idet, calls, inProgress, result, files, writes>>

Next ==
    \/ MakeTopDir
    \/ BuildProfile
    \/ ProfileTypeError
    \/ BuildLS
    \/ SetAbundances
    \/ LoadWlens
    \/ UseMinMax
    \/ MakeSaveDir
    \/ CallEngine
    \/ EngineReturns
    \/ EngineRaises
    \/ Dump
    \/ Finish

Spec == Init /\ [][Next]_vars

\* the interpreter runs the next statement, and every engine call returns or raises
LiveSpec == Spec /\ WF_vars(Next)

----------------------------------------------------------------------------
(* Properties *)

\* the numbers held by a scalar or an array
Values(x) == IF x.kind = "scalar" THEN {x.v} ELSE {x.v[j] : j \in DOMAIN x.v}

\* the engine has been entered at least once
Started == Len(calls) >= 1

\* 'pRT_models/' is the only directory the run may have touched
OnlyTopDir == made \subseteq {"pRT_models/"} /\ dirs \subseteq {"pRT_models/"}

\* the first (last) value of entry i of the wavelength file, in microns, moved
\* down (up) by one per cent
LowerBound(i) == Q(99 * wlensData[i][1].num, 100000 * wlensData[i][1].den)
UpperBound(i) ==
    LET e == wlensData[i]
    IN  Q(101 * e[Len(e)].num, 100000 * e[Len(e)].den)

\* C1: in per-order mode the engine invocation for order i (the i-th invocation)
\* is given the window [0.99 * W_min[i], 1.01 * W_max[i]] of that order and no
\* value of another order.
C1_OwnWindowPerOrder ==
    ~IsNone(args.wlens_file) =>
        \A i \in DOMAIN calls :
            /\ Values(calls[i].wlen_bords_micron[1]) = {LowerBound(i)}
            /\ Values(calls[i].wlen_bords_micron[2]) = {UpperBound(i)}

\* C9: every name of LS handed to the engine is a key of the abundance
\* dictionary handed to the same invocation.
C9_LineSpeciesHaveAbundances ==
    \A i \in DOMAIN calls :
        \A j \in DOMAIN calls[i].line_species :
            calls[i].line_species[j] \in DOMAIN calls[i].abundances

\* the template file name of the order labelled k, inside the output directory
NameOf(k) == save_dir \o "template_det" \o ToString(k) \o ".pic"

\* what pickle.dump stores for the j-th invocation
ContentOf(j) ==
    <<(<<"wlens", j>>), [minus_sq_ratio |-> <<(<<"transm_rad", j>>), profile.Rs>>]>>

\* C2: without a wavelength file a completed run has invoked the engine exactly
\* once, over [0.99 * wmin, 1.01 * wmax], and has written exactly one file,
\* template_det1.pic.
C2_SingleModelRun ==
    (IsNone(args.wlens_file) /\ pc = "done") =>
        /\ Len(calls) = 1
        /\ calls[1].wlen_bords_micron =
              <<Scalar(Q(99 * args.wmin.num, 100 * args.wmin.den)),
                Scalar(Q(101 * args.wmax.num, 100 * args.wmax.den))>>
        /\ writes = <<save_dir \o "template_det1.pic">>
        /\ DOMAIN files = {save_dir \o "template_det1.pic"}

C2_Witness ==
    /\ IsNone(args.wlens_file)
    /\ pc = "done"
    /\ args.wmin = Q(2, 1)
    /\ Len(writes) = 1

\* C3: the files written so far have pairwise distinct names template_det<k>.pic,
\* k the label of their order, each still holds what its own order stored, and
\* a completed run over n orders has written exactly n files.
C3_OneFilePerOrder ==
    /\ \A i, j \in DOMAIN writes : i # j => writes[i] # writes[j]
    /\ \A j \in DOMAIN writes :
          /\ writes[j] = NameOf(orders.det[j])
          /\ files[writes[j]] = ContentOf(j)
    /\ Cardinality(DOMAIN files) = Len(writes)
    /\ pc = "done" => Len(writes) = orders.ndet

C3_Witness ==
    /\ pc = "done"
    /\ Len(wlensData) = 2
    /\ Cardinality(DOMAIN files) = 2

\* the species names joined by "_", built from the last name backwards
RECURSIVE Underscored(_)
Underscored(sp) ==
    IF Len(sp) = 1 THEN sp[1]
    ELSE Underscored(SubSeq(sp, 1, Len(sp) - 1)) \o "_" \o sp[Len(sp)]

Frame(c) == [c EXCEPT !.wlen_bords_micron = None]

\* C5: the loop leaves the profile alone; every engine invocation of a run gets
\* the same pressures, temperature, abundances, MMW, gravity, radius, reference
\* pressure and line species, namely those built before the loop.
C5_ProfileSameForAllOrders ==
    \A i \in DOMAIN calls :
        /\ Frame(calls[i]) = Frame(calls[1])
        /\ calls[i].pressures = profile.pressures
        /\ calls[i].temperature = profile.temperature
        /\ calls[i].abundances = abundances
        /\ calls[i].MMW = profile.MMW
        /\ calls[i].gravity = args.grav
        /\ calls[i].R_pl.val = args.Rp
        /\ calls[i].P0_bar = Q(1, 100)
        /\ calls[i].line_species = LS

C5_Witness ==
    /\ Len(calls) = 2
    /\ pc = "done"

\* C6: once the engine has raised for order k the run is over: k + 1 invocations
\* were started and none follows, exactly the files of the orders before k exist,
\* each as its order left it, and the run is not DONE.
C6_AbortOnEngineFailure ==
    err = Some("EngineError") =>
        /\ pc = "crashed"
        /\ inProgress = 0
        /\ Len(calls) = idet + 1
        /\ Len(writes) = idet
        /\ DOMAIN files = {NameOf(orders.det[j]) : j \in 1..idet}
        /\ \A j \in 1..idet : files[NameOf(orders.det[j])] = ContentOf(j)

C6_Witness ==
    /\ err = Some("EngineError")
    /\ idet = 1
    /\ Len(writes) = 1
    /\ Len(wlensData) = 2

\* where the loop stands: invocations started and files written against idet
InStep ==
    /\ inProgress <= 1
    /\ pc \in {"loop", "done"} => Len(calls) = idet /\ Len(writes) = idet /\ inProgress = 0
    /\ pc = "engine" => Len(calls) = idet + 1 /\ Len(writes) = idet /\ inProgress = 1
    /\ pc = "dump" => Len(calls) = idet + 1 /\ Len(writes) = idet /\ inProgress = 0
    /\ \A j \in DOMAIN writes : writes[j] = NameOf(orders.det[j])
    /\ Len(writes) <= Len(calls) /\ Len(calls) <= Len(writes) + 1

CompletedAll ==
    pc = "done" /\ Len(calls) = orders.ndet /\ Len(writes) = orders.ndet

\* C7: orders are handled one after the other in increasing index: invocation
\* i + 1 starts only after file i is written, at most one invocation is in
\* progress, and unless the run fails it ends DONE with n invocations and n files.
C7_SequentialToDone ==
    /\ []InStep
    /\ [](pc = "done" => CompletedAll)
    /\ <>(pc = "crashed" \/ CompletedAll)

C7_Witness ==
    /\ CompletedAll
    /\ orders.ndet = 2

\* all elements of an array over the pressure levels are the one value x
AllLevels(a, x) ==
    /\ a.kind = "array"
    /\ DOMAIN a.v = 1..100
    /\ \A i \in 1..100 : a.v[i] = x

\* C8: once built, the temperature array has 100 equal values (Teq itself when
\* --Teff is absent), and so have the MMW array and every abundance array.
C8_IsothermalUniform ==
    /\ profile # None =>
          /\ Len(profile.pressures.v) = 100
          /\ AllLevels(profile.temperature, profile.temperature.v[1])
          /\ IsNone(args.Teff) =>
                AllLevels(profile.temperature, [coef |-> Q(args.Teq, 1), rad |-> 1])
          /\ AllLevels(profile.MMW, args.mmw)
    /\ abundances # None =>
          \A k \in DOMAIN abundances : AllLevels(abundances[k], abundances[k].v[100])

C8_Witness ==
    /\ profile # None
    /\ abundances # None
    /\ ~IsNone(args.Teff)
    /\ profile.temperature.v[100].rad # 1

TeffWithoutTint == ~IsNone(args.Teff) /\ IsNone(args.Tint)

\* C10: with --Teff and without --Tint the run ends in the TypeError of the
\* profile construction: no engine invocation, no template file, and no
\* directory other than pRT_models/ created.
C10_TeffWithoutTintAborts ==
    /\ [](TeffWithoutTint =>
            /\ pc \in {"makedirs_top", "profile", "crashed"}
            /\ pc = "crashed" => err = Some("TypeError")
            /\ calls = <<>> /\ inProgress = 0
            /\ writes = <<>> /\ DOMAIN files = {}
            /\ OnlyTopDir)
    /\ (TeffWithoutTint ~> pc = "crashed")

C10_Witness ==
    /\ TeffWithoutTint
    /\ pc = "crashed"
    /\ err = Some("TypeError")
    /\ made = {}

====
